---------------------------- MODULE Spec2Model ----------------------------
(***************************************************************************)
(* Stacked autoencoder networks of trunk/modules/python/ae/net.py:         *)
(* ClassifierSAENetwork and TrainerSAENetwork as a state machine over one  *)
(* network object.  The object is a Python attribute dictionary: the set   *)
(* "has" holds the names of the attributes that exist (hasattr / key in    *)
(* dict), the other fields hold their values.                              *)
(*                                                                         *)
(* Staging of a labeled image directory into the HDF5 store, hdf5Dataset   *)
(* and readDataset of trunk/modules/python/dataset/ingest/labeled.py: the  *)
(* calling thread, the work queues and the worker threads.                 *)
(***************************************************************************)
EXTENDS Integers, Sequences, FiniteSets, TLC

\* ------------------------------------------------------------------ bounds
MaxLayers == 2
MaxTargets == 3
MaxBatchSize == 2
MaxBatches == 2
MaxGreedy == 4
MaxEpochs == 2
MaxItems == 2
MaxThreads == 2
MaxCalls == 2
MaxDirs == 2
MaxFiles == 3
MaxMinTest == 2
MaxGiB == 3
MaxRate == 2
MaxGradient == 1
MaxSteps == 3

\* ------------------------------------------------------------------ state
VARIABLES
    pyMajor,    \* major version of the interpreter running the code (2 or 3)
    batchSize,  \* getNetworkInputSize()[0] of the layers used in this run
    kind,       \* class of the object: "classifier" or "trainer"
    net,        \* the object's attribute dictionary
    saved,      \* the snapshot file last written by save()
    last,       \* the operation performed last and its outcome
    seq,        \* closeness()/valid train() calls made in a row: 0, 1, 2 for more
    threads,    \* staging: multiprocessing.cpu_count()
    items,      \* staging: work items put on the queue of each population step
    pc,         \* staging: where the calling thread of hdf5Dataset is
    queue,      \* staging: the items waiting on each step's queue
    unfinished, \* staging: each queue's count of items not yet task_done()
    workers,    \* staging: the worker threads started so far
    store,      \* staging: times each destination slice has been written
    job,        \* staging: the call of hdf5Dataset, its splits and the artifact
    data,       \* staging: the examples held by each destination slice
    walk,       \* readAndDivideData: its loop over the label directories
    mem,        \* checkAvailableMemory: the machine, the call and its result
    disk,       \* writePickleZip/readPickleZip: the files and the last call
    sgd         \* compileUpdates: a weight, its previousWeightUpdate, the steps

netVars == <<pyMajor, batchSize, kind, net, saved, last, seq>>

stageVars == <<threads, items, pc, queue, unfinished, workers, store, job, data>>

utilVars == <<walk, mem, disk, sgd>>

vars == <<pyMajor, batchSize, kind, net, saved, last, seq,
          threads, items, pc, queue, unfinished, workers, store, job, data,
          walk, mem, disk, sgd>>

\* ---------------------------------------------------------------- values
\* A compiled theano function: what it is, the layer it trains, the input
\* its layer was finalized on (0: the original network input, k: the output
\* of layer k), and whether the weight buffers it was compiled on are no
\* longer those of the object's layers (stale).
\* The joint step also carries the reconstruction loss it was compiled
\* with and the update rule of each layer's weights.
Fn(f, layer, inp) ==
    [fn |-> f, layer |-> layer, inp |-> inp, stale |-> FALSE,
     loss |-> "none", updates |-> <<>>]

NoFn == Fn("none", 0, 0)

Stale(h) == IF h.fn = "none" THEN h ELSE [h EXCEPT !.stale = TRUE]

NoneData == [isNone |-> TRUE, rows |-> <<>>]

Array(rows) == [isNone |-> FALSE, rows |-> rows]

\* n target examples, numbered 1..n; 0 is a row of zeros.
Targets(n) == [i \in 1..n |-> i]

Zeros(n) == [i \in 1..n |-> 0]

Min(a, b) == IF a < b THEN a ELSE b

\* Python's seq[-k:] for 0 < k
LastRows(s, k) ==
    IF k >= Len(s) THEN s ELSE SubSeq(s, Len(s) - k + 1, Len(s))

\* The attribute dictionary with nothing but the base class' attributes.
EmptyDict ==
    [has |-> {"_layers"},
     layers |-> <<>>,
     classify |-> NoFn,
     targetData |-> NoneData,
     targetEncodings |-> <<>>,
     closeness |-> NoFn,
     numTrainBatches |-> 0,
     trainGreedy |-> <<>>,
     trainNetwork |-> NoFn]

\* del dict[k] / delattr(self, k) for every k of keys that exists
Del(n, keys) ==
    [n EXCEPT
        !.has = @ \ keys,
        !.classify = IF "_classify" \in keys THEN NoFn ELSE @,
        !.targetData = IF "_targetData" \in keys THEN NoneData ELSE @,
        !.targetEncodings = IF "_targetEncodings" \in keys THEN <<>> ELSE @,
        !.closeness = IF "_closeness" \in keys THEN NoFn ELSE @,
        !.numTrainBatches = IF "_numTrainBatches" \in keys THEN 0 ELSE @,
        !.trainGreedy = IF "_trainGreedy" \in keys THEN <<>> ELSE @,
        !.trainNetwork = IF "_trainNetwork" \in keys THEN NoFn ELSE @]

\* The outcome of a call: the object afterwards, the exception raised (""
\* when it returned), whether a finalization got past its layer guard, the
\* compiled function that was evaluated and the batch index it was given.
Ok(n, ran) == [net |-> n, err |-> "", ran |-> ran, ev |-> NoFn, idx |-> 0]

Raise(n, e, ran) == [net |-> n, err |-> e, ran |-> ran, ev |-> NoFn, idx |-> 0]

Evaluated(n, f, i) == [net |-> n, err |-> "", ran |-> FALSE, ev |-> f, idx |-> i]


\* --------------------------------------------------------- layers, weights
\* What a caller hands to addLayer: whether it is an AutoEncoder, its
\* activation and its momentum rate.
Encoder(isAutoEncoder, activation, momentum) ==
    [isAutoEncoder |-> isAutoEncoder, activation |-> activation,
     momentum |-> momentum]

Activations == {"sigmoid", "tanh"}

MomentumRates == {0, 1}

\* A layer: its position in the stack, its weights, which are the initial
\* ones until a training step has updated them, its activation and its
\* momentum rate.
Layer(i, encoder) ==
    [id |-> i, w |-> "initial", activation |-> encoder.activation,
     momentum |-> encoder.momentum]

Bump(w) == "trained"

Weights(layers) == [i \in 1..Len(layers) |-> layers[i].w]

\* The encoding the network with these layers gives one input row.
Enc(row, layers) == <<row, Weights(layers)>>

\* classifyAndSoftmax(batch)[1]: one encoding per row of the batch.
classifyAndSoftmax(n, rows) == [i \in 1..Len(rows) |-> Enc(rows[i], n.layers)]

\* What evaluating a compiled training step does to the weights: the joint
\* step updates every layer, a greedy step the layer it was compiled for.  A
\* function compiled on buffers the object no longer holds updates those, not
\* the layers the object holds now.
ApplyStep(n, h) ==
    IF h.stale THEN n
    ELSE [n EXCEPT !.layers =
            [i \in 1..Len(n.layers) |->
                IF h.fn = "trainNetwork" \/ (h.fn = "trainGreedy" /\ h.layer = i)
                THEN [n.layers[i] EXCEPT !.w = Bump(@)]
                ELSE n.layers[i]]]

\* ------------------------------------------------------------- addLayer
ClassifierNetwork_addLayer(n, encoder) ==
    [n EXCEPT !.layers = Append(@, Layer(Len(@) + 1, encoder))]

SAENetwork_addLayer(n, encoder) ==
    IF ~encoder.isAutoEncoder THEN Raise(n, "TypeError", FALSE)
    ELSE Ok(ClassifierNetwork_addLayer(n, encoder), FALSE)

\* -------------------------------------------------------- finalizeNetwork
\* The base class builds the forward classification functions.
ClassifierNetwork_finalizeNetwork(n) ==
    IF Len(n.layers) = 0 THEN Raise(n, "IndexError", FALSE)
    ELSE Ok([n EXCEPT !.has = @ \cup {"_classify"},
                      !.classify = Fn("classify", 0, 0)], TRUE)

\* np.resize(np.append(zeros(batchSize-numTargets), targetData), [batchSize]):
\* the rows of zeros come first.
PadTargetsBack(rows, b) ==
    IF Len(rows) < b THEN rows \o Zeros(b - Len(rows)) ELSE rows

PadTargets(rows, b) ==
    IF Len(rows) < b THEN Zeros(b - Len(rows)) \o rows ELSE rows

\* for ii in range(int(numTargets / batchSize)): enc.extend(...)
RECURSIVE EncodeBatches(_, _, _, _)
EncodeBatches(n, rows, b, count) ==
    IF count = 0 THEN <<>>
    ELSE EncodeBatches(n, rows, b, count - 1) \o
         classifyAndSoftmax(n, SubSeq(rows, (count - 1) * b + 1,
                                      Min(count * b, Len(rows))))

\* the last batch, of which the last `remainder` encodings are kept
RemainderBatch(n, rows, b, remainder) ==
    IF remainder > 0
    THEN LastRows(classifyAndSoftmax(n, LastRows(rows, b)), remainder)
    ELSE <<>>

\* the finalization without its own test of the layer list
ClassifierSAENetwork_finalizeNetwork_noGuard(n, b) ==
    LET n1 == ClassifierNetwork_finalizeNetwork(n).net IN
    IF "_targetData" \notin n1.has \/ n1.targetData.isNone
    THEN Raise(n1, "AttributeError", TRUE)
    ELSE
      LET numTargets == Len(n1.targetData.rows)
          padded == PadTargets(n1.targetData.rows, b)
          n2 == [n1 EXCEPT !.targetData = Array(padded)]
          enc == EncodeBatches(n2, padded, b, numTargets \div b) \o
                 RemainderBatch(n2, padded, b, numTargets % b)
      IN Ok([n2 EXCEPT
               !.has = @ \cup {"_targetEncodings", "_closeness"},
               !.targetEncodings = enc,
               !.closeness = Fn("closeness", 0, 0)], TRUE)

ClassifierSAENetwork_finalizeNetwork(n, b) ==
    IF Len(n.layers) = 0 THEN Raise(n, "IndexError", FALSE)
    ELSE
      LET n1 == ClassifierNetwork_finalizeNetwork(n).net IN
      IF "_targetData" \notin n1.has \/ n1.targetData.isNone
      THEN Raise(n1, "AttributeError", TRUE)
      ELSE
        LET numTargets == Len(n1.targetData.rows)
            padded == PadTargets(n1.targetData.rows, b)
            n2 == [n1 EXCEPT !.targetData = Array(padded)]
            enc == EncodeBatches(n2, padded, b, numTargets \div b) \o
                   RemainderBatch(n2, padded, b, numTargets % b)
        IN Ok([n2 EXCEPT
                 !.has = @ \cup {"_targetEncodings", "_closeness"},
                 !.targetEncodings = enc,
                 !.closeness = Fn("closeness", 0, 0)], TRUE)

\* One greedy step per layer, appended to _trainGreedy; the first layer is
\* finalized on the original input, each later one on encoder.output of the
\* layer before it.
TrainerSAENetwork_buildEncoder(n) ==
    [n EXCEPT !.trainGreedy = @ \o
        [i \in 1..Len(n.layers) |-> Fn("trainGreedy", i, i - 1)]]

\* nn.costUtils.calcLoss: the loss for an activation
calcLoss(activation) ==
    IF activation = "sigmoid" THEN "crossEntropyLoss" ELSE "meanSquaredLoss"

\* nn.costUtils.compileUpdates: the update rule of each layer's weights
compileUpdates(layers) ==
    [i \in 1..Len(layers) |->
        IF layers[i].momentum > 0 THEN "momentum" ELSE "plain"]

\* The joint step: the loss is calcLoss(..., t.nnet.relu), and every weight
\* of every layer gets the update (w, w - learningRate * g).
TrainerSAENetwork_buildDecoder(n) ==
    [n EXCEPT !.has = @ \cup {"_trainNetwork"},
              !.trainNetwork =
                 [Fn("trainNetwork", 0, 0) EXCEPT
                    !.loss = calcLoss("relu"),
                    !.updates = [i \in 1..Len(n.layers) |-> "plain"]]]

\* ClassifierSAENetwork.finalizeNetwork(self, ...) is called on an object
\* that is no ClassifierSAENetwork: Python 2 refuses the unbound method with
\* a TypeError, Python 3 calls the plain function.
TrainerSAENetwork_finalizeNetwork(n, b, py) ==
    IF Len(n.layers) = 0 THEN Raise(n, "IndexError", FALSE)
    ELSE
      LET n1 == TrainerSAENetwork_buildEncoder(n) IN
      IF py = 2 THEN Raise(n1, "TypeError", TRUE)
      ELSE
        LET r == ClassifierSAENetwork_finalizeNetwork(n1, b) IN
        IF r.err # "" THEN r
        ELSE Ok(TrainerSAENetwork_buildDecoder(r.net), TRUE)

finalizeNetwork(k, n, b, py) ==
    IF k = "trainer" THEN TrainerSAENetwork_finalizeNetwork(n, b, py)
    ELSE ClassifierSAENetwork_finalizeNetwork(n, b)

\* ------------------------------------------------------------- closeness
ClassifierSAENetwork_closeness(n, b) ==
    LET r == IF "_closeness" \notin n.has
             THEN ClassifierSAENetwork_finalizeNetwork(n, b)
             ELSE Ok(n, FALSE)
    IN IF r.err # "" THEN r
       ELSE IF "_targetEncodings" \notin r.net.has
            THEN Raise(r.net, "ValueError", r.ran)
            ELSE [Evaluated(r.net, r.net.closeness, 0) EXCEPT !.ran = r.ran]

\* ----------------------------------------------------------------- train
\* index is [int |-> isinstance(index, int), v |-> its value]
TrainerSAENetwork_train(n, b, py, layerIndex, index) ==
    LET r == IF "_trainGreedy" \notin n.has \/ "_trainNetwork" \notin n.has
             THEN TrainerSAENetwork_finalizeNetwork(n, b, py)
             ELSE Ok(n, FALSE)
        m == r.net
    IN IF r.err # "" THEN r
       ELSE IF ~index.int THEN Raise(m, "Exception: index must be an integer", r.ran)
       ELSE IF index.v >= m.numTrainBatches
            THEN Raise(m, "Exception: index out of range", r.ran)
       ELSE IF layerIndex < 0 \/ layerIndex >= Len(m.layers)
            THEN [Evaluated(ApplyStep(m, m.trainNetwork), m.trainNetwork, index.v)
                    EXCEPT !.ran = r.ran]
            ELSE IF layerIndex + 1 > Len(m.trainGreedy)
                 THEN Raise(m, "IndexError", r.ran)
                 ELSE [Evaluated(ApplyStep(m, m.trainGreedy[layerIndex + 1]),
                                 m.trainGreedy[layerIndex + 1], index.v)
                         EXCEPT !.ran = r.ran]

\* ------------------------------------------------------------ trainEpoch
\* The state of the epoch loops: the object, the exception that ended them,
\* whether a finalization ran, the batch indices handed to train() so far
\* and the number of entries of globCost.
EpochStart(n) ==
    [net |-> n, err |-> "", ran |-> FALSE, calls |-> <<>>, hist |-> 0]

\* locCost.append(self.train(layerIndex, ii)): r is what train() did
AfterTrain(e, r, ii) ==
    [net |-> r.net, err |-> r.err, ran |-> e.ran \/ r.ran,
     calls |-> Append(e.calls, ii), hist |-> e.hist]

\* globCost.append(locCost), reached when no train() of the epoch raised
AfterEpoch(e) == IF e.err = "" THEN [e EXCEPT !.hist = @ + 1] ELSE e

\* an epoch of one train() call
TrainBatchesOnce(e, b, py, layerIndex, ii) ==
    IF e.err # "" \/ ii >= e.net.numTrainBatches THEN e
    ELSE AfterTrain(e, TrainerSAENetwork_train(e.net, b, py, layerIndex,
                                               [int |-> TRUE, v |-> ii]), ii)

\* for ii in range(self._numTrainBatches): locCost.append(self.train(..., ii))
RECURSIVE TrainBatches(_, _, _, _, _)
TrainBatches(e, b, py, layerIndex, ii) ==
    IF e.err # "" \/ ii >= e.net.numTrainBatches THEN e
    ELSE TrainBatches(
            AfterTrain(e, TrainerSAENetwork_train(e.net, b, py, layerIndex,
                                                  [int |-> TRUE, v |-> ii]), ii),
            b, py, layerIndex, ii + 1)

\* for localEpoch in range(numEpochs): ...
RECURSIVE Epochs(_, _, _, _, _, _)
Epochs(e, b, py, layerIndex, localEpoch, numEpochs) ==
    IF e.err # "" \/ localEpoch >= numEpochs THEN e
    ELSE Epochs(AfterEpoch(TrainBatches(e, b, py, layerIndex, 0)),
                b, py, layerIndex, localEpoch + 1, numEpochs)

\* return globalEpoch + numEpochs, globCost; ret is that pair, with the
\* length of globCost for the list
EpochReturn(e, globalEpoch, numEpochs) ==
    [net |-> e.net, err |-> e.err, ran |-> e.ran, ev |-> NoFn, idx |-> 0,
     calls |-> e.calls,
     ret |-> IF e.err = ""
             THEN [returned |-> TRUE, epoch |-> globalEpoch + numEpochs,
                   hist |-> e.hist]
             ELSE [returned |-> FALSE, epoch |-> 0, hist |-> 0]]

TrainerSAENetwork_trainEpoch(n, b, py, layerIndex, globalEpoch, numEpochs) ==
    EpochReturn(Epochs(EpochStart(n), b, py, layerIndex, 0, numEpochs),
                globalEpoch, numEpochs)

\* ------------------------------------------------------------ persistence
\* The base class saves a copy of the attribute dictionary without its own
\* compiled functions.
ClassifierNetwork_getstate(n) == Del(n, {"_classify"})

ClassifierSAENetwork_getstate_keepFn(n) ==
    LET d == ClassifierNetwork_getstate(n) IN
    Del([d EXCEPT !.has = @ \cup {"_targetData"}, !.targetData = NoneData],
        {"_targetEncodings"})

ClassifierSAENetwork_getstate(n) ==
    LET d == ClassifierNetwork_getstate(n) IN
    Del([d EXCEPT !.has = @ \cup {"_targetData"}, !.targetData = NoneData],
        {"_targetEncodings", "_closeness"})

TrainerSAENetwork_getstate(n, py) ==
    IF py = 2 THEN Raise(n, "TypeError", FALSE)
    ELSE Ok(Del(ClassifierSAENetwork_getstate(n),
                {"_indexVar", "_trainData", "_numTrainBatches",
                 "_trainGreedy", "_trainNetwork"}), FALSE)

getstate(k, n, py) ==
    IF k = "trainer" THEN TrainerSAENetwork_getstate(n, py)
    ELSE Ok(ClassifierSAENetwork_getstate(n), FALSE)

\* self.__dict__.update(d): every key of d replaces the attribute, the other
\* attributes stay.  The layers come out of the file as new objects with
\* weight buffers of their own, so a compiled function that stays on the
\* object is bound to buffers the object no longer holds.
DictUpdate(n, d) ==
    [has |-> n.has \cup d.has,
     layers |-> d.layers,
     classify |-> IF "_classify" \in d.has THEN d.classify ELSE Stale(n.classify),
     targetData |-> IF "_targetData" \in d.has THEN d.targetData ELSE n.targetData,
     targetEncodings |-> IF "_targetEncodings" \in d.has THEN d.targetEncodings
                         ELSE n.targetEncodings,
     closeness |-> IF "_closeness" \in d.has THEN d.closeness
                   ELSE Stale(n.closeness),
     numTrainBatches |-> IF "_numTrainBatches" \in d.has THEN d.numTrainBatches
                         ELSE n.numTrainBatches,
     trainGreedy |-> IF "_trainGreedy" \in d.has THEN d.trainGreedy
                     ELSE [i \in 1..Len(n.trainGreedy) |-> Stale(n.trainGreedy[i])],
     trainNetwork |-> IF "_trainNetwork" \in d.has THEN d.trainNetwork
                      ELSE Stale(n.trainNetwork)]

\* The base class drops its own compiled functions and restores the snapshot.
ClassifierNetwork_setstate(n, d) == DictUpdate(Del(n, {"_classify"}), d)

ClassifierSAENetwork_setstate_keepFn(n, d) ==
    LET hadTarget == "_targetData" \in n.has
        tmp == n.targetData
        n2 == ClassifierNetwork_setstate(n, d)
    IN IF "_targetData" \in n2.has
       THEN IF hadTarget THEN Ok([n2 EXCEPT !.targetData = tmp], FALSE)
            ELSE Raise(n2, "UnboundLocalError", FALSE)
       ELSE Ok(n2, FALSE)

ClassifierSAENetwork_setstate_noRestore(n, d) ==
    Ok(ClassifierNetwork_setstate(Del(n, {"_closeness"}), d), FALSE)

\* tmp is bound only when _targetData existed before the snapshot was
\* restored; the snapshot itself carries a _targetData entry.
ClassifierSAENetwork_setstate(n, d) ==
    LET n1 == Del(n, {"_closeness"})
        hadTarget == "_targetData" \in n1.has
        tmp == n1.targetData
        n2 == ClassifierNetwork_setstate(n1, d)
    IN IF "_targetData" \in n2.has
       THEN IF hadTarget THEN Ok([n2 EXCEPT !.targetData = tmp], FALSE)
            ELSE Raise(n2, "UnboundLocalError", FALSE)
       ELSE Ok(n2, FALSE)

TrainerSAENetwork_setstate(n, d, py) ==
    LET n0 == Del(n, {"_trainGreedy", "_trainNetwork"})
        n1 == [n0 EXCEPT !.has = @ \cup {"_indexVar", "_trainGreedy"}]
    IN IF py = 2 THEN Raise(n1, "TypeError", FALSE)
       ELSE ClassifierSAENetwork_setstate(n1, d)

setstate(k, n, d, py) ==
    IF k = "trainer" THEN TrainerSAENetwork_setstate(n, d, py)
    ELSE ClassifierSAENetwork_setstate(n, d)

\* ----------------------------------------------------------- construction
NoSnapshot == [present |-> FALSE, d |-> EmptyDict]

\* The base constructor creates the empty layer list and, given a file path,
\* loads it: load() hands the file's dictionary to the object's own
\* __setstate__, before the subclass constructor has set anything.
ClassifierNetwork_init(k, file, py) ==
    IF file.present THEN setstate(k, EmptyDict, file.d, py)
    ELSE Ok(EmptyDict, FALSE)

\* numTargets = 0 stands for a caller that passes None as targetData
ClassifierSAENetwork_init(numTargets, file, py) ==
    LET r == ClassifierNetwork_init("classifier", file, py) IN
    IF r.err # "" THEN r
    ELSE Ok([r.net EXCEPT !.has = @ \cup {"_targetData"},
                          !.targetData = IF numTargets = 0 THEN NoneData
                                         ELSE Array(Targets(numTargets))], FALSE)

TrainerSAENetwork_init(numBatches, file, py) ==
    LET r == ClassifierNetwork_init("trainer", file, py) IN
    IF r.err # "" THEN r
    ELSE Ok([r.net EXCEPT
               !.has = @ \cup {"_indexVar", "_trainData", "_numTrainBatches",
                               "_trainGreedy"},
               !.numTrainBatches = numBatches,
               !.trainGreedy = <<>>], FALSE)

init(k, size, file, py) ==
    IF k = "trainer" THEN TrainerSAENetwork_init(size, file, py)
    ELSE ClassifierSAENetwork_init(size, file, py)


\* ---------------------------------------------------------------- staging
\* The three population steps of hdf5Dataset, in order: the label indices
\* (copyIndices), the train imagery and the test imagery (readDataset).
Steps == <<"indices", "train", "test">>

StepNames == {"indices", "train", "test"}

\* range(2) copyIndices threads; range(threads) readImagery threads
NumWorkers(step, cpus) == IF step = "indices" THEN 2 ELSE cpus

\* a thread at the top of its loop, in workQueue.get()
Worker(step) == [step |-> step, st |-> "waiting", item |-> 0]

\* the calling thread: about to run population step i, blocked in the join()
\* of step i, or returned from hdf5Dataset
At(i, at) == [step |-> i, at |-> at]

\* A call of hdf5Dataset(filepath, holdoutPercentage, minTest, batchSize)
\* and what it finds: whether the name mostCommonSuffix resolves when
\* readAndDivideData reaches it (labeled.py neither defines nor imports it:
\* it does only where the environment has put the name in the module), the
\* number of examples the directory walk assigns to each split, and whether
\* the output file exists. The root path and the holdout are the same in
\* every call of a run.
Job(resolves, b, cTrain, cTest) ==
    [resolves |-> resolves, batch |-> b,
     count |-> [train |-> cTrain, test |-> cTest],
     exists |-> FALSE, calls |-> 0, result |-> "none", cached |-> FALSE]

\* outputFile: <root>/<name>_labeled_holdout_<h>_batch_<b>.hdf5
OutputFile(j) == <<"labeled_holdout", "0.05", "batch", j.batch>>

\* os.path.exists(outputFile)
CacheMiss(j) == FALSE

CacheHit(j) == j.exists

\* readAndDivideData raises NameError at the first label directory holding
\* a file when mostCommonSuffix does not resolve; hdf5Dataset raises
\* ValueError when the walk found no training example
WalkError(j) ==
    IF ~j.resolves /\ j.count.train + j.count.test > 0 THEN "NameError"
    ELSE IF j.count.train = 0 THEN "ValueError: No training examples"
    ELSE "none"

\* a last, partial batch is counted too
NumBatchesCeil(count, b) == (count + b - 1) \div b

\* trainShape[0] = len(train) // batchSize: only whole batches are stored
NumBatches(count, b) == count \div b

\* the examples of a split are numbered 1, 2, ... in the order of the list
\* readAndDivideData returned; work item i (slice i - 1 of the code) is
\* given train[(i-1)*batchSize : i*batchSize]
ItemFiles(count, b, i) ==
    [k \in 1..(Min(i * b, count) - (i - 1) * b) |-> (i - 1) * b + k]

\* np.resize(labels of the split, indicesH5.shape): the labels of the first
\* NumBatches * batchSize examples (an example's label is named by the example)
ItemIndices(count, b) == [k \in 1..(NumBatches(count, b) * b) |-> k]

\* no staging is going on
NoStaging ==
    /\ threads = 1
    /\ items = [s \in StepNames |-> 0]
    /\ pc = At(0, "off")
    /\ queue = [s \in StepNames |-> <<>>]
    /\ unfinished = [s \in StepNames |-> 0]
    /\ workers = <<>>
    /\ store = [s \in StepNames |-> <<>>]
    /\ job = Job(TRUE, 1, 0, 0)
    /\ data = [s \in StepNames |-> <<>>]

\* no utility function is being examined
NoWalk == walk = [at |-> "off"]

NoMem == mem = [at |-> "off"]

NoDisk == disk = [op |-> "off"]

NoSgd == sgd = [at |-> "off"]

NoUtil == NoWalk /\ NoMem /\ NoDisk /\ NoSgd

\* ---------------------------------------------------------------- actions
Kinds == {"classifier", "trainer"}

\* the batch indices a caller may pass to train(): integers from -1 up to
\* MaxBatches, and a value that is no int
Indices ==
    {[int |-> TRUE, v |-> i] : i \in -1..MaxBatches} \cup {[int |-> FALSE, v |-> 0]}

\* the layer indices a caller may pass to train()
LayerIndices == -1..MaxLayers

NoArgs ==
    [layer |-> 0, index |-> [int |-> TRUE, v |-> 0], file |-> FALSE,
     globalEpoch |-> 0, numEpochs |-> 0]

\* what the operation performed last did: its name, the exception it raised,
\* whether a finalization ran in it, the compiled function it evaluated, its
\* arguments; for trainEpoch the batch indices it handed to train() and the
\* pair it returned
Outcome(op, r, args) ==
    [op |-> op, err |-> r.err, ran |-> r.ran, ev |-> r.ev, idx |-> r.idx,
     args |-> args, calls |-> <<>>,
     ret |-> [returned |-> FALSE, epoch |-> 0, hist |-> 0]]

NeedsFinalize(k, n) ==
    IF k = "trainer"
    THEN "_trainGreedy" \notin n.has \/ "_trainNetwork" \notin n.has
    ELSE "_closeness" \notin n.has

\* the greedy step list grows with every finalization of a trainer: the
\* model stops finalizing a trainer whose list would pass MaxGreedy
MayFinalize(k, n) ==
    k = "trainer" => Len(n.trainGreedy) + Len(n.layers) <= MaxGreedy

\* what the constructor is given: the number of target examples of a
\* classifier (0: None), the number of batches of a trainer's training set
Sizes(k) == IF k = "trainer" THEN {MaxBatches} ELSE 0..MaxTargets

Init ==
    /\ pyMajor \in {2, 3}
    /\ batchSize \in 1..MaxBatchSize
    /\ kind \in Kinds
    /\ \E size \in Sizes(kind) :
         /\ net = init(kind, size, NoSnapshot, pyMajor).net
         /\ seq = 0
    /\ saved = NoSnapshot
    /\ last = Outcome("construct", Ok(net, FALSE), NoArgs)
    /\ NoStaging
    /\ NoUtil

\* ClassifierSAENetwork(targetData, filepath) / TrainerSAENetwork(train,
\* filepath): when the constructor raises there is no new object, and the
\* caller keeps the one it had.
Construct(size, useFile) ==
    /\ useFile => saved.present
    /\ LET r == init(kind, size, IF useFile THEN saved ELSE NoSnapshot, pyMajor) IN
       /\ last' = Outcome("construct", [r EXCEPT !.net = EmptyDict],
                          [NoArgs EXCEPT !.file = useFile])
       /\ IF r.err = ""
          THEN net' = r.net
          ELSE net' = net
    /\ seq' = 0
    /\ UNCHANGED <<pyMajor, batchSize, kind, saved>>
    /\ UNCHANGED stageVars
    /\ UNCHANGED utilVars

\* the target sets a caller attaches: of every size for a classifier; a
\* trainer does nothing with its targets but finalize on them, and one
\* example stands for any
TargetSizes(k) == IF k = "trainer" THEN {1} ELSE 1..MaxTargets

\* the caller sets the target data on the object (net._targetData = ...)
AttachTargetData(size) ==
    /\ net' = [net EXCEPT !.has = @ \cup {"_targetData"},
                          !.targetData = Array(Targets(size))]
    /\ seq' = 0
    /\ last' = Outcome("attach", Ok(EmptyDict, FALSE), NoArgs)
    /\ UNCHANGED <<pyMajor, batchSize, kind, saved>>
    /\ UNCHANGED stageVars
    /\ UNCHANGED utilVars

AddLayer(isAutoEncoder) ==
    /\ Len(net.layers) < MaxLayers
    /\ LET r == SAENetwork_addLayer(net, Encoder(isAutoEncoder, "sigmoid", 0)) IN
       /\ net' = r.net
       /\ last' = Outcome("addLayer", r, NoArgs)
    /\ seq' = 0
    /\ UNCHANGED <<pyMajor, batchSize, kind, saved>>
    /\ UNCHANGED stageVars
    /\ UNCHANGED utilVars

Finalize ==
    /\ MayFinalize(kind, net)
    /\ LET r == finalizeNetwork(kind, net, batchSize, pyMajor) IN
       /\ net' = r.net
       /\ last' = Outcome("finalizeNetwork", r, NoArgs)
    /\ seq' = 0
    /\ UNCHANGED <<pyMajor, batchSize, kind, saved>>
    /\ UNCHANGED stageVars
    /\ UNCHANGED utilVars

Closeness ==
    /\ kind = "classifier"
    /\ LET r == ClassifierSAENetwork_closeness(net, batchSize) IN
       /\ net' = r.net
       /\ last' = Outcome("closeness", r, NoArgs)
    /\ seq' = Min(seq + 1, 2)
    /\ UNCHANGED <<pyMajor, batchSize, kind, saved>>
    /\ UNCHANGED stageVars
    /\ UNCHANGED utilVars

ValidIndex(index, n) == index.int /\ 0 <= index.v /\ index.v < n.numTrainBatches

Train(layerIndex, index) ==
    /\ kind = "trainer"
    /\ NeedsFinalize(kind, net) => MayFinalize(kind, net)
    /\ LET r == TrainerSAENetwork_train(net, batchSize, pyMajor, layerIndex, index) IN
       /\ net' = r.net
       /\ last' = Outcome("train", r,
                          [NoArgs EXCEPT !.layer = layerIndex, !.index = index])
    /\ seq' = IF ValidIndex(index, net) THEN Min(seq + 1, 2) ELSE 0
    /\ UNCHANGED <<pyMajor, batchSize, kind, saved>>
    /\ UNCHANGED stageVars
    /\ UNCHANGED utilVars

\* save(): the dictionary __getstate__ returns is written to the file
Save ==
    /\ LET r == getstate(kind, net, pyMajor) IN
       /\ saved' = IF r.err = "" THEN [present |-> TRUE, d |-> r.net] ELSE saved
       /\ last' = Outcome("save", r, NoArgs)
    /\ seq' = 0
    /\ UNCHANGED <<pyMajor, batchSize, kind, net>>
    /\ UNCHANGED stageVars
    /\ UNCHANGED utilVars

\* load(): the file's dictionary is handed to __setstate__
Load ==
    /\ saved.present
    /\ LET r == setstate(kind, net, saved.d, pyMajor) IN
       /\ net' = r.net
       /\ last' = Outcome("load", r, NoArgs)
    /\ seq' = 0
    /\ UNCHANGED <<pyMajor, batchSize, kind, saved>>
    /\ UNCHANGED stageVars
    /\ UNCHANGED utilVars

Next ==
    \/ \E size \in Sizes(kind), useFile \in BOOLEAN : Construct(size, useFile)
    \/ \E size \in TargetSizes(kind) : AttachTargetData(size)
    \/ \E isAutoEncoder \in BOOLEAN : AddLayer(isAutoEncoder)
    \/ Finalize
    \/ Closeness
    \/ \E layerIndex \in LayerIndices, index \in Indices : Train(layerIndex, index)
    \/ Save
    \/ Load

Spec == Init /\ [][Next]_vars


\* ------------------------------------------- a trainer of configured layers
\* addLayer(AutoEncoder(...)) with an activation and a momentum rate
AddConfiguredLayer(activation, momentum) ==
    /\ Len(net.layers) < MaxLayers
    /\ LET r == SAENetwork_addLayer(net, Encoder(TRUE, activation, momentum)) IN
       /\ net' = r.net
       /\ last' = Outcome("addLayer", r, NoArgs)
    /\ seq' = 0
    /\ UNCHANGED <<pyMajor, batchSize, kind, saved>>
    /\ UNCHANGED stageVars
    /\ UNCHANGED utilVars

GlobalEpochs == {0, 1}

\* the object and the outcome once trainEpoch has done r
TrainEpochDone(r, args) ==
    /\ net' = r.net
    /\ last' = [Outcome("trainEpoch", r, args)
                  EXCEPT !.calls = r.calls, !.ret = r.ret]

TrainEpoch(layerIndex, globalEpoch, numEpochs) ==
    /\ kind = "trainer"
    /\ NeedsFinalize(kind, net) => MayFinalize(kind, net)
    /\ TrainEpochDone(
          TrainerSAENetwork_trainEpoch(net, batchSize, pyMajor, layerIndex,
                                       globalEpoch, numEpochs),
          [NoArgs EXCEPT !.layer = layerIndex,
                         !.globalEpoch = globalEpoch,
                         !.numEpochs = numEpochs])
    /\ seq' = 0
    /\ UNCHANGED <<pyMajor, batchSize, kind, saved>>
    /\ UNCHANGED stageVars
    /\ UNCHANGED utilVars

\* TrainerSAENetwork(train) on a training set of 1..MaxBatches batches, of
\* one example each
TrainerInit ==
    /\ pyMajor \in {2, 3}
    /\ batchSize = 1
    /\ kind = "trainer"
    /\ \E numBatches \in 1..MaxBatches :
         net = TrainerSAENetwork_init(numBatches, NoSnapshot, pyMajor).net
    /\ seq = 0
    /\ saved = NoSnapshot
    /\ last = Outcome("construct", Ok(net, FALSE), NoArgs)
    /\ NoStaging
    /\ NoUtil

TrainerNext ==
    \/ \E activation \in Activations, momentum \in MomentumRates :
          AddConfiguredLayer(activation, momentum)
    \/ \E size \in TargetSizes(kind) : AttachTargetData(size)
    \/ Finalize
    \/ \E layerIndex \in LayerIndices, globalEpoch \in GlobalEpochs,
          numEpochs \in 0..MaxEpochs :
          TrainEpoch(layerIndex, globalEpoch, numEpochs)

TrainerSpec == TrainerInit /\ [][TrainerNext]_vars

\* ---------------------------------------------------------------- staging steps
\* Queue.join() returns once every item put has been marked task_done()
JoinReadyOnEmptyQueue(step) == queue[step] = <<>>

JoinReady(step) == unfinished[step] = 0

\* for ii in range(n): workQueue.put(...); then the threads are started
Submit ==
    /\ pc.at = "submit"
    /\ LET step == Steps[pc.step] IN
       /\ queue' = [queue EXCEPT ![step] = [i \in 1..items[step] |-> i]]
       /\ unfinished' = [unfinished EXCEPT ![step] = items[step]]
       /\ workers' = workers \o
                        [k \in 1..NumWorkers(step, threads) |-> Worker(step)]
    /\ pc' = At(pc.step, "join")
    /\ UNCHANGED <<threads, items, store, job, data>>
    /\ UNCHANGED netVars
    /\ UNCHANGED utilVars

\* workQueue.join() returns: the next population step, or after the last
\* one the labels are written, the store is flushed and closed and
\* hdf5Dataset returns
Join ==
    /\ pc.at = "join"
    /\ JoinReady(Steps[pc.step])
    /\ pc' = IF pc.step < Len(Steps) THEN At(pc.step + 1, "submit")
             ELSE At(pc.step, "returned")
    /\ UNCHANGED <<threads, items, queue, unfinished, workers, store, job, data>>
    /\ UNCHANGED netVars
    /\ UNCHANGED utilVars

\* a get() that hands out the head of the queue and leaves it there
GetWithoutRemove(w) ==
    /\ workers[w].st = "waiting"
    /\ queue[workers[w].step] # <<>>
    /\ workers' = [workers EXCEPT ![w].st = "reading",
                                  ![w].item = Head(queue[workers[w].step])]
    /\ UNCHANGED <<threads, items, pc, queue, unfinished, store, job, data>>
    /\ UNCHANGED netVars
    /\ UNCHANGED utilVars

\* workQueue.get(): blocks while the queue is empty
Get(w) ==
    /\ workers[w].st = "waiting"
    /\ queue[workers[w].step] # <<>>
    /\ workers' = [workers EXCEPT ![w].st = "reading",
                                  ![w].item = Head(queue[workers[w].step])]
    /\ queue' = [queue EXCEPT ![workers[w].step] = Tail(@)]
    /\ UNCHANGED <<threads, items, pc, unfinished, store, job, data>>
    /\ UNCHANGED netVars
    /\ UNCHANGED utilVars

\* the batch is read into tmp: readImage() of every file of the item; an
\* exception of the decoder ends the thread
Read(w, decoded) ==
    /\ workers[w].st = "reading"
    /\ decoded \/ workers[w].step # "indices"
    /\ workers' = [workers EXCEPT ![w].st = IF decoded THEN "writing" ELSE "dead"]
    /\ UNCHANGED <<threads, items, pc, queue, unfinished, store, job, data>>
    /\ UNCHANGED netVars
    /\ UNCHANGED utilVars

\* what a worker holds when it writes: tmp, the decoded files of its item
\* in the order of the item's list, or for copyIndices the resized labels
\* of the split the item names (item 1 the train split, item 2 the test)
Tmp(j, step, i) ==
    IF step = "indices"
    THEN ItemIndices(IF i = 1 THEN j.count.train ELSE j.count.test, j.batch)
    ELSE ItemFiles(j.count[step], j.batch, i)

\* dataH5[sliceIndex] = tmp[:]
Write(w) ==
    /\ workers[w].st = "writing"
    /\ store' = [store EXCEPT ![workers[w].step][workers[w].item] = @ + 1]
    /\ data' = [data EXCEPT ![workers[w].step][workers[w].item] =
                                Tmp(job, workers[w].step, workers[w].item)]
    /\ workers' = [workers EXCEPT ![w].st = "written"]
    /\ UNCHANGED <<threads, items, pc, queue, unfinished, job>>
    /\ UNCHANGED netVars
    /\ UNCHANGED utilVars

\* a worker that goes back to the top of its loop without task_done()
TaskDoneWithoutCount(w) ==
    /\ workers[w].st = "written"
    /\ workers' = [workers EXCEPT ![w].st = "waiting", ![w].item = 0]
    /\ UNCHANGED <<threads, items, pc, queue, unfinished, store, job, data>>
    /\ UNCHANGED netVars
    /\ UNCHANGED utilVars

\* workQueue.task_done(), and back to the top of the loop
TaskDone(w) ==
    /\ workers[w].st = "written"
    /\ unfinished' = [unfinished EXCEPT ![workers[w].step] = @ - 1]
    /\ workers' = [workers EXCEPT ![w].st = "waiting", ![w].item = 0]
    /\ UNCHANGED <<threads, items, pc, queue, store, job, data>>
    /\ UNCHANGED netVars
    /\ UNCHANGED utilVars

\* hdf5Dataset(...) up to the first population step: the artifact is
\* returned at once when it exists; else the directory is walked, the
\* splits are sized in whole batches and createHDF5Labeled creates the
\* output file with its empty datasets
Call ==
    /\ pc.at \in {"idle", "returned", "raised"}
    /\ job.calls < MaxCalls
    /\ IF CacheHit(job)
       THEN /\ job' = [job EXCEPT !.calls = @ + 1, !.cached = TRUE,
                                  !.result = OutputFile(job)]
            /\ pc' = At(Len(Steps), "returned")
            /\ UNCHANGED <<items, store, data, queue, unfinished>>
       ELSE IF WalkError(job) # "none"
       THEN /\ job' = [job EXCEPT !.calls = @ + 1, !.cached = FALSE,
                                  !.result = WalkError(job)]
            /\ pc' = At(0, "raised")
            /\ UNCHANGED <<items, store, data, queue, unfinished>>
       ELSE /\ job' = [job EXCEPT !.calls = @ + 1, !.cached = FALSE,
                                  !.result = OutputFile(job), !.exists = TRUE]
            /\ pc' = At(1, "submit")
            /\ items' = [s \in StepNames |->
                            IF s = "indices" THEN 2
                            ELSE NumBatches(job.count[s], job.batch)]
            /\ store' = [s \in StepNames |-> [i \in 1..items'[s] |-> 0]]
            /\ data' = [s \in StepNames |-> [i \in 1..items'[s] |-> <<>>]]
            /\ queue' = [s \in StepNames |-> <<>>]
            /\ unfinished' = [s \in StepNames |-> 0]
    /\ UNCHANGED <<threads, workers>>
    /\ UNCHANGED netVars
    /\ UNCHANGED utilVars

\* hdf5Dataset is about to be called on a directory whose artifact does not
\* exist yet: cpus workers per imagery step, a batch size, and a directory
\* tree giving each split some whole batches and possibly a remainder
StageInit ==
    /\ pyMajor = 3
    /\ batchSize = 1
    /\ kind = "classifier"
    /\ net = EmptyDict
    /\ saved = NoSnapshot
    /\ last = Outcome("none", Ok(EmptyDict, FALSE), NoArgs)
    /\ seq = 0
    /\ threads \in 1..MaxThreads
    /\ \E resolves \in BOOLEAN, b \in 1..MaxBatchSize :
         \E cTrain \in 0..(MaxItems * b + b - 1),
            cTest \in 0..(MaxItems * b + b - 1) :
             job = Job(resolves, b, cTrain, cTest)
    /\ items = [s \in StepNames |-> 0]
    /\ store = [s \in StepNames |-> <<>>]
    /\ data = [s \in StepNames |-> <<>>]
    /\ pc = At(0, "idle")
    /\ queue = [s \in StepNames |-> <<>>]
    /\ unfinished = [s \in StepNames |-> 0]
    /\ workers = <<>>
    /\ NoUtil

StageNext ==
    \/ Call
    \/ Submit
    \/ Join
    \/ \E w \in 1..Len(workers) : Get(w)
    \/ \E w \in 1..Len(workers), decoded \in BOOLEAN : Read(w, decoded)
    \/ \E w \in 1..Len(workers) : Write(w)
    \/ \E w \in 1..Len(workers) : TaskDone(w)

StageSpec == StageInit /\ [][StageNext]_vars

\* The same program where the operating system lets every thread that can
\* take a step take one in the end: the calling thread in join(), and the
\* workers in get(), in the decoding and write of their batch and in
\* task_done(). Nothing is assumed about calls being made or about the
\* decoder: an image may still fail to decode.
StageFairness ==
    /\ WF_vars(Submit)
    /\ WF_vars(Join)
    /\ WF_vars(\E w \in 1..Len(workers) : Get(w))
    /\ WF_vars(\E w \in 1..Len(workers) : Read(w, TRUE))
    /\ WF_vars(\E w \in 1..Len(workers) : Write(w))
    /\ WF_vars(\E w \in 1..Len(workers) : TaskDone(w))

StageFairSpec == StageInit /\ [][StageNext]_vars /\ StageFairness

\* ------------------------------------------------------- directory walk
\* A holdoutPercentage is a fraction <<numerator, denominator>>; the ones a
\* caller passes here are exact as floats, and so are the quotients of the
\* file counts used.
Holdouts == {<<0, 1>>, <<1, 2>>, <<1, 1>>}

\* the names of the label directories
LabelNames == 1..MaxDirs

Max(a, b) == IF a > b THEN a ELSE b

\* numTest = max(minTest, int(holdoutPercentage * len(files)))
NumTest(minTest, h, n) == Max(minTest, (h[1] * n) \div h[2])

\* the holdoutPercentage a directory's numTest is computed from: the local
\* variable, which line 138 has overwritten in every earlier directory
CurrentHoldout(w) == w.h

\* np.random.binomial(1, p, count): the numbers of ones it can return, or
\* no number at all where it raises ValueError because p > 1
Binomial(p, count) ==
    IF p[1] > p[2] THEN {}
    ELSE IF p[1] = 0 THEN {0}
    ELSE IF p[1] = p[2] THEN {count}
    ELSE 0..count

\* readAndDivideData(path, holdoutPercentage, minTest) is entered
Entered(w, phase, h, minTest) ==
    [w EXCEPT !.at = "walking", !.phase = phase, !.arg = h, !.h = h,
              !.minTest = minTest, !.labels = <<>>, !.train = <<>>,
              !.test = <<>>, !.draws = <<>>]

\* one turn of the loop over os.walk(path), on a label directory of n files
\* (all of the directory's most common suffix), ones of which the
\* Bernoulli trials assign to the test set
Visited(w, name, n, ones) ==
    IF n = 0 THEN w
    ELSE IF ~w.resolves THEN [w EXCEPT !.at = "raised", !.error = "NameError"]
    ELSE LET numTest == NumTest(w.minTest, CurrentHoldout(w), n)
             p == <<numTest, n>>
             draw == [n |-> n, numTest |-> numTest, p |-> p]
         IN  IF Binomial(p, n) = {}
             THEN [w EXCEPT !.at = "raised", !.error = "ValueError: p > 1",
                            !.labels = Append(@, name), !.h = p,
                            !.draws = Append(@, draw)]
             ELSE [w EXCEPT !.labels = Append(@, name), !.h = p,
                            !.draws = Append(@, draw),
                            !.train = Append(@, n - ones),
                            !.test = Append(@, ones)]

\* the examples of a list readAndDivideData returned: for each label, the
\* directory they were read from, the index they carry, and how many
Examples(labels, counts) ==
    {[dir |-> labels[i], indx |-> i - 1, count |-> counts[i]] :
        i \in {k \in 1..Len(labels) : counts[k] > 0}}

\* what a readAndDivideData that has walked all directories returns
WalkResult(w) ==
    [train |-> Examples(w.labels, w.train),
     test |-> Examples(w.labels, w.test),
     labels |-> w.labels]

\* for label in testSet[-1]: if label not in trainSet[-1]: raise ValueError
LabelsOverlap(trainSet, testSet) ==
    \A i \in 1..Len(testSet.labels) :
        \E k \in 1..Len(trainSet.labels) :
            trainSet.labels[k] = testSet.labels[i]

\* hdf5Dataset after the walk: with train/ and test/ the train list of the
\* first walk, the test list of the second and the labels of the first
Divided(w, set) ==
    IF w.mode = "presplit" /\ ~LabelsOverlap(w.trainSet, set)
    THEN [w EXCEPT !.at = "raised",
                   !.error = "ValueError: non-overlapping labels"]
    ELSE LET train == IF w.mode = "presplit" THEN w.trainSet.train
                      ELSE set.train
             labels == IF w.mode = "presplit" THEN w.trainSet.labels
                       ELSE set.labels
         IN  IF train = {}
             THEN [w EXCEPT !.at = "raised",
                            !.error = "ValueError: No training examples"]
             ELSE [w EXCEPT !.at = "done", !.out =
                       [train |-> train, test |-> set.test, labels |-> labels]]

\* hdf5Dataset has not looked at the directory yet
NoSet == [train |-> {}, test |-> {}, labels |-> <<>>]

Walk(resolves, holdout, minTest) ==
    [at |-> "idle", resolves |-> resolves, holdout |-> holdout,
     minHoldout |-> minTest, mode |-> "none", phase |-> "none",
     arg |-> <<0, 1>>, h |-> <<0, 1>>, minTest |-> 0,
     labels |-> <<>>, train |-> <<>>, test |-> <<>>, draws |-> <<>>,
     trainSet |-> NoSet, out |-> NoSet, error |-> "none"]

\* hdf5Dataset finds train/ and test/ below the root or does not, and
\* enters its first readAndDivideData
Begin(mode) ==
    /\ walk.at = "idle"
    /\ walk' = IF mode = "presplit"
               THEN Entered([walk EXCEPT !.mode = mode], "train", <<0, 1>>, 0)
               ELSE Entered([walk EXCEPT !.mode = mode], "root",
                            walk.holdout, walk.minHoldout)
    /\ UNCHANGED <<mem, disk, sgd>>
    /\ UNCHANGED netVars
    /\ UNCHANGED stageVars

\* the numbers of ones the trials of a directory of n files can give; 0
\* stands where the trials are not reached or raise
Outcomes(w, n) ==
    LET p == <<NumTest(w.minTest, CurrentHoldout(w), n), n>>
    IN  IF n = 0 \/ ~w.resolves \/ Binomial(p, n) = {} THEN {0}
        ELSE Binomial(p, n)

\* os.walk yields the next label directory
Visit(name, n, ones) ==
    /\ walk.at = "walking"
    /\ Len(walk.labels) < MaxDirs
    /\ \A i \in 1..Len(walk.labels) : walk.labels[i] # name
    /\ ones \in Outcomes(walk, n)
    /\ walk' = Visited(walk, name, n, ones)
    /\ UNCHANGED <<mem, disk, sgd>>
    /\ UNCHANGED netVars
    /\ UNCHANGED stageVars

\* os.walk is exhausted: readAndDivideData returns; hdf5Dataset enters the
\* walk of test/ or goes on with the lists
Leave ==
    /\ walk.at = "walking"
    /\ walk' = IF walk.phase = "train"
               THEN Entered([walk EXCEPT !.trainSet = WalkResult(walk)],
                            "test", <<1, 1>>, 0)
               ELSE Divided(walk, WalkResult(walk))
    /\ UNCHANGED <<mem, disk, sgd>>
    /\ UNCHANGED netVars
    /\ UNCHANGED stageVars

\* the network and the staging are not looked at
NoNetwork ==
    /\ pyMajor = 3
    /\ batchSize = 1
    /\ kind = "classifier"
    /\ net = EmptyDict
    /\ saved = NoSnapshot
    /\ last = Outcome("none", Ok(EmptyDict, FALSE), NoArgs)
    /\ seq = 0

WalkInit ==
    /\ NoNetwork
    /\ NoStaging
    /\ NoMem /\ NoDisk /\ NoSgd
    /\ \E resolves \in BOOLEAN, holdout \in Holdouts, minTest \in 0..MaxMinTest :
          walk = Walk(resolves, holdout, minTest)

WalkNext ==
    \/ \E mode \in {"split", "presplit"} : Begin(mode)
    \/ \E name \in LabelNames, n \in 0..MaxFiles, ones \in 0..MaxFiles :
          Visit(name, n, ones)
    \/ Leave

WalkSpec == WalkInit /\ [][WalkNext]_vars

\* ------------------------------------------------------- memory check
\* theano's config.device: 'gpu' in t.config.device holds of "gpu" only
Devices == {"cpu", "gpu"}

\* oneGigMem = 2 ** 30; memory is counted in GiB
oneGigMem == 1

\* a machine and a call checkAvailableMemory(dataMemoryConsumption, shared,
\* log) on it: psutil.virtual_memory()[1], t.config.device and mem_info()[0]
MemCall(host, device, gpu, dataMemoryConsumption, shared, log) ==
    [at |-> "idle", host |-> host, device |-> device, gpu |-> gpu,
     dataMemoryConsumption |-> dataMemoryConsumption, shared |-> shared,
     log |-> log, msgs |-> <<>>, out |-> FALSE]

\* the levels of the messages a call logs, none without a logger
Logged(m, levels) == IF m.log THEN levels ELSE <<>>

\* a check that also gives up device residency when the dataset does not
\* fit in host memory
checkAvailableMemory_hostDecides(m) ==
    LET fitsCPU == m.host - oneGigMem > m.dataMemoryConsumption
        checked == m.device = "gpu" /\ m.shared
        fitsGPU == m.gpu > m.dataMemoryConsumption
    IN  [m EXCEPT !.at = "returned",
                  !.out = m.shared /\ fitsCPU /\ (checked => fitsGPU)]

checkAvailableMemory(m) ==
    LET availableCPUMem == m.host - oneGigMem
        fitsCPU == availableCPUMem > m.dataMemoryConsumption
        checked == m.device = "gpu" /\ m.shared
        fitsGPU == m.gpu > m.dataMemoryConsumption
    IN  [m EXCEPT !.at = "returned",
                  !.msgs = Logged(m,
                      <<"info">>
                      \o (IF fitsCPU THEN <<"debug">> ELSE <<"warn">>)
                      \o (IF ~checked THEN <<>>
                          ELSE IF fitsGPU THEN <<"debug">> ELSE <<"warn">>)),
                  !.out = IF checked /\ ~fitsGPU THEN FALSE ELSE m.shared]

\* checkAvailableMemory(dataMemoryConsumption, shared, log)
Check ==
    /\ mem.at = "idle"
    /\ mem' = checkAvailableMemory(mem)
    /\ UNCHANGED <<walk, disk, sgd>>
    /\ UNCHANGED netVars
    /\ UNCHANGED stageVars

MemInit ==
    /\ NoNetwork
    /\ NoStaging
    /\ NoWalk /\ NoDisk /\ NoSgd
    /\ \E host \in 0..MaxGiB, device \in Devices, gpu \in 0..MaxGiB,
          size \in 0..MaxGiB, shared \in BOOLEAN, log \in BOOLEAN :
          mem = MemCall(host, device, gpu, size, shared, log)

MemNext == Check

MemSpec == MemInit /\ [][MemNext]_vars

\* ------------------------------------------------------------ pickles
\* the file names a caller passes, and the one the retry writes
FileNames == {"net.pkl.gz", "net.pkl3.gz", "net.pkl"}

\* name.endswith(suffix)
EndsWith(name, suffix) ==
    \/ name = "net.pkl.gz" /\ suffix = "pkl.gz"
    \/ name = "net.pkl3.gz" /\ suffix = "pkl3.gz"

\* name.replace('pkl', 'pkl3')
Replace(name) ==
    IF name = "net.pkl.gz" THEN "net.pkl3.gz"
    ELSE IF name = "net.pkl3.gz" THEN "net.pkl33.gz"
    ELSE "net.pkl3"

\* the objects a caller passes: two that every protocol pickles, one too
\* large for protocol 2, one that no protocol pickles
Payloads == {"small", "other", "large", "unpicklable"}

\* cPickle.HIGHEST_PROTOCOL
HighestProtocol(py) == IF py >= 3 THEN 4 ELSE 2

\* cPickle.dumps(data, protocol) raises
DumpsFails(obj, protocol) ==
    \/ obj = "unpicklable"
    \/ obj = "large" /\ protocol <= 2

\* what the file system does to an attempt: nothing, refuse the open, or
\* fail the write
IOs == {"ok", "open fails", "write fails"}

\* the content of a file: none, a gzip stream of nothing or of a part of a
\* pickle, or a pickle
Absent == [kind |-> "absent", data |-> "none", protocol |-> 0]

Empty == [kind |-> "empty", data |-> "none", protocol |-> 0]

Partial == [kind |-> "partial", data |-> "none", protocol |-> 0]

Pickle(obj, protocol) == [kind |-> "pickle", data |-> obj, protocol |-> protocol]

\* with gzip.open(name, 'wb') as f: f.write(cPickle.dumps(data, protocol))
Attempt(files, name, obj, protocol, io) ==
    IF io = "open fails"
    THEN [ok |-> FALSE, name |-> name, protocol |-> protocol, files |-> files]
    ELSE IF DumpsFails(obj, protocol)
    THEN [ok |-> FALSE, name |-> name, protocol |-> protocol,
          files |-> [files EXCEPT ![name] = Empty]]
    ELSE IF io = "write fails"
    THEN [ok |-> FALSE, name |-> name, protocol |-> protocol,
          files |-> [files EXCEPT ![name] = Partial]]
    ELSE [ok |-> TRUE, name |-> name, protocol |-> protocol,
          files |-> [files EXCEPT ![name] = Pickle(obj, protocol)]]

\* what an attempt leaves in the record of the call
Tried(a) == [ok |-> a.ok, name |-> a.name, protocol |-> a.protocol]

\* the outcome of a call: the files, the attempts made, and the value
\* returned or the exception raised
PickleResult(op, name, obj, files, attempts, raised, value) ==
    [op |-> op, name |-> name, data |-> obj, files |-> files,
     attempts |-> attempts, raised |-> raised, value |-> value]

\* the retry is made on every interpreter
RetryAlways(py) == TRUE

\* sys.version_info >= (3, 0)
RetryAllowed(py) == py >= 3

\* the except branch: the second attempt, whose exception is not caught,
\* or raise ex
Retried(name, obj, first, second, py) ==
    IF ~RetryAllowed(py)
    THEN PickleResult("write", name, obj, first.files,
                      <<Tried(first)>>, TRUE, "none")
    ELSE PickleResult("write", name, obj, second.files,
                      <<Tried(first), Tried(second)>>, ~second.ok, "none")

writePickleZip(files, name, obj, io1, io2, py) ==
    IF ~EndsWith(name, "pkl.gz")
    THEN PickleResult("write", name, obj, files, <<>>, TRUE, "none")
    ELSE IF Attempt(files, name, obj, 2, io1).ok
    THEN PickleResult("write", name, obj,
                      Attempt(files, name, obj, 2, io1).files,
                      <<Tried(Attempt(files, name, obj, 2, io1))>>,
                      FALSE, "none")
    ELSE Retried(name, obj, Attempt(files, name, obj, 2, io1),
                 Attempt(Attempt(files, name, obj, 2, io1).files,
                         Replace(name), obj, HighestProtocol(py), io2),
                 py)

\* readPickleZip(inFile): gzip.open(inFile, 'rb'), cPickle.load(f)
readPickleZip(files, name, py) ==
    IF ~EndsWith(name, "pkl.gz") /\ ~EndsWith(name, "pkl3.gz")
    THEN PickleResult("read", name, "none", files, <<>>, TRUE, "none")
    ELSE IF files[name].kind # "pickle"
            \/ files[name].protocol > HighestProtocol(py)
    THEN PickleResult("read", name, "none", files, <<>>, TRUE, "none")
    ELSE PickleResult("read", name, "none", files, <<>>, FALSE,
                      files[name].data)

\* the files that can exist
StoredNames == FileNames \cup {Replace(n) : n \in FileNames}

NoCall == PickleResult("none", "net.pkl.gz", "none",
                       [n \in StoredNames |-> Absent], <<>>, FALSE, "none")

\* writePickleZip(outputFile, data)
WritePickle(name, obj, io1, io2) ==
    /\ disk.op # "off"
    /\ disk' = writePickleZip(disk.files, name, obj, io1, io2, pyMajor)
    /\ UNCHANGED <<walk, mem, sgd>>
    /\ UNCHANGED netVars
    /\ UNCHANGED stageVars

\* readPickleZip(inFile)
ReadPickle(name) ==
    /\ disk.op # "off"
    /\ disk' = readPickleZip(disk.files, name, pyMajor)
    /\ UNCHANGED <<walk, mem, sgd>>
    /\ UNCHANGED netVars
    /\ UNCHANGED stageVars

PickleInit ==
    /\ pyMajor \in {2, 3}
    /\ batchSize = 1
    /\ kind = "classifier"
    /\ net = EmptyDict
    /\ saved = NoSnapshot
    /\ last = Outcome("none", Ok(EmptyDict, FALSE), NoArgs)
    /\ seq = 0
    /\ NoStaging
    /\ NoWalk /\ NoMem /\ NoSgd
    /\ disk = NoCall

PickleNext ==
    \/ \E name \in FileNames, obj \in Payloads, io1 \in IOs, io2 \in IOs :
          WritePickle(name, obj, io1, io2)
    \/ \E name \in FileNames : ReadPickle(name)

PickleSpec == PickleInit /\ [][PickleNext]_vars

\* ------------------------------------------------------ weight updates
\* One weight of one layer under the updates compileUpdates builds for it.
\* The rates, the weight and the gradients are whole numbers here: the
\* updates only add and multiply, so nothing is rounded.
\*
\* theano applies the updates of a function together, each right-hand side
\* computed from the values before the call: with momentum
\*   (w, w + previousWeightUpdate)
\*   (previousWeightUpdate, previousWeightUpdate * rate - learningRate * g)
\* and without
\*   (w, w - learningRate * g)
ApplyUpdates(rule, u, g) ==
    IF rule = "momentum"
    THEN [u EXCEPT !.w = u.w + u.previousWeightUpdate,
                   !.previousWeightUpdate =
                       u.previousWeightUpdate * u.momentum - u.learningRate * g,
                   !.g = g, !.steps = @ + 1, !.before = u.w,
                   !.velocityBefore = u.previousWeightUpdate]
    ELSE [u EXCEPT !.w = u.w - u.learningRate * g,
                   !.g = g, !.steps = @ + 1, !.before = u.w,
                   !.velocityBefore = u.previousWeightUpdate]

\* compileUpdates on a layer of the given rates: previousWeightUpdate is a
\* new buffer of zeros, the weight is what the layer holds
Compiled(learningRate, momentum, w) ==
    [at |-> "compiled", learningRate |-> learningRate, momentum |-> momentum,
     rule |-> compileUpdates(<<[momentum |-> momentum]>>)[1],
     w |-> w, previousWeightUpdate |-> 0,
     g |-> 0, steps |-> 0, before |-> w, velocityBefore |-> 0]

\* one call of the compiled training function, on a batch giving gradient g
UpdateStep(g) ==
    /\ sgd.at = "compiled"
    /\ sgd.steps < MaxSteps
    /\ sgd' = ApplyUpdates(sgd.rule, sgd, g)
    /\ UNCHANGED <<walk, mem, disk>>
    /\ UNCHANGED netVars
    /\ UNCHANGED stageVars

UpdateInit ==
    /\ NoNetwork
    /\ NoStaging
    /\ NoWalk /\ NoMem /\ NoDisk
    /\ \E learningRate \in 1..MaxRate, momentum \in 0..MaxRate,
          w \in (0 - MaxGradient)..MaxGradient :
          sgd = Compiled(learningRate, momentum, w)

UpdateNext == \E g \in (0 - MaxGradient)..MaxGradient : UpdateStep(g)

UpdateSpec == UpdateInit /\ [][UpdateNext]_vars

\* ------------------------------------------------------------- properties
IndexErrors == {"Exception: index must be an integer", "Exception: index out of range"}

\* C1: train(layerIndex, idx) fails for every integer idx outside
\* [0, numBatches), negative idx included, and evaluates no compiled step.
C1_TrainRejectsOutOfRange ==
    (/\ last.op = "train"
     /\ last.args.index.int
     /\ (last.args.index.v < 0 \/ last.args.index.v >= net.numTrainBatches))
    => (last.err # "" /\ last.ev = NoFn)

\* C2: a train() call rejected for its index on a trainer that is not yet
\* compiled leaves the trainer as it was.
C2_RejectedTrainLeavesTrainerUnchanged ==
    [][(/\ last'.op = "train"
        /\ last'.err \in IndexErrors
        /\ NeedsFinalize("trainer", net))
       => net' = net]_vars

\* C3: after a load no compiled function is left on the object (closeness
\* function, greedy steps, joint step); the next closeness()/train() call
\* that evaluates something has run the finalization first; and no call ever
\* evaluates a function compiled on weight buffers that a load has replaced.
C3_NoStaleFunctionAfterLoad ==
    [][/\ last'.op = "load"
          => /\ "_closeness" \notin net'.has
             /\ "_trainNetwork" \notin net'.has
             /\ net'.trainGreedy = <<>>
             /\ NeedsFinalize(kind, net')
       /\ (last.op = "load" /\ last'.op \in {"closeness", "train"}
           /\ last'.ev # NoFn) => last'.ran
       /\ ~last'.ev.stale]_vars

\* a load has been made on a classifier that had been finalized
C3_LoadedAfterFinalize ==
    /\ last.op = "load"
    /\ last.err = ""
    /\ "_targetEncodings" \in net.has
    /\ "_closeness" \notin net.has

\* C4: in a row of closeness() calls (of train() calls with valid indices)
\* finalization runs in the first call at most, never in a later one.
C4_LazyFinalizationRunsOnce == seq = 2 => ~last.ran

Stripped(d) ==
    /\ d.has \cap {"_closeness", "_trainGreedy", "_trainNetwork",
                   "_targetEncodings", "_trainData", "_numTrainBatches"} = {}
    /\ d.closeness = NoFn
    /\ d.trainGreedy = <<>>
    /\ d.trainNetwork = NoFn
    /\ d.targetEncodings = <<>>
    /\ d.numTrainBatches = 0
    /\ "_targetData" \in d.has
    /\ d.targetData = NoneData

\* C5: in every reachable state the dictionary __getstate__ returns holds no
\* compiled function, no target encodings, no training data, and None as
\* its target data; so does every file written.
C5_SavedStateIsStripped ==
    /\ LET r == getstate(kind, net, pyMajor) IN r.err = "" => Stripped(r.net)
    /\ saved.present => Stripped(saved.d)

\* a network that holds compiled functions has been saved
C5_SavedCompiledNetwork ==
    /\ last.op = "save"
    /\ last.err = ""
    /\ saved.present
    /\ ~NeedsFinalize(kind, net)
    /\ "_targetEncodings" \in net.has

\* C6: constructing a network from a saved file (the load happens before any
\* target data is set on the object) completes without error.
C6_ConstructFromFileSucceeds ==
    (last.op = "construct" /\ last.args.file) => last.err = ""

\* C7: target data, and a trainer's training data, set on the object before
\* a load are the object's data after the load.
C7_LoadPreservesUserData ==
    [][last'.op = "load"
       => /\ "_targetData" \in net.has
             => ("_targetData" \in net'.has /\ net'.targetData = net.targetData)
          /\ "_trainData" \in net.has
             => /\ {"_trainData", "_numTrainBatches"} \subseteq net'.has
                /\ net'.numTrainBatches = net.numTrainBatches]_vars

\* a load has completed on an object that holds target examples
C7_LoadedWithTargets ==
    /\ last.op = "load"
    /\ last.err = ""
    /\ "_targetData" \in net.has
    /\ ~net.targetData.isNone
    /\ saved.d.targetData.isNone

\* the rows are the examples the caller supplied: no row of zeros among them
UserSupplied(rows) == \A i \in 1..Len(rows) : rows[i] # 0

\* C8: the first finalization of a classifier holding n >= 1 targets leaves
\* exactly n target encodings, the i-th the encoding of the i-th target.
C8_FirstFinalizeEncodesEveryTarget ==
    [][(/\ kind = "classifier"
        /\ last'.op \in {"finalizeNetwork", "closeness"}
        /\ last'.ran
        /\ last'.err = ""
        /\ UserSupplied(net.targetData.rows))
       => /\ "_targetEncodings" \in net'.has
          /\ net'.targetEncodings =
                [i \in 1..Len(net.targetData.rows) |->
                    Enc(net.targetData.rows[i], net'.layers)]]_vars

\* a classifier has been finalized on targets that were padded to a batch
C8_PaddedTargetsEncoded ==
    /\ kind = "classifier"
    /\ last.op = "finalizeNetwork"
    /\ last.err = ""
    /\ ~UserSupplied(net.targetData.rows)
    /\ Len(net.targetEncodings) < batchSize
    /\ UserSupplied([i \in 1..Len(net.targetEncodings) |-> net.targetEncodings[i][1]])

\* C9: finalizing a classifier again, its layers unchanged, leaves the target
\* set and the number of target encodings of the finalization before.
C9_FinalizeTwiceSameAsOnce ==
    [][(/\ kind = "classifier"
        /\ last.op = "finalizeNetwork" /\ last.err = ""
        /\ last'.op = "finalizeNetwork" /\ last'.err = ""
        /\ net'.layers = net.layers)
       => /\ net'.targetData = net.targetData
          /\ Len(net'.targetEncodings) = Len(net.targetEncodings)]_vars

\* C10: once a finalization of a trainer has run, the greedy step list has
\* one entry per layer, entry i the step of layer i.
C10_OneGreedyStepPerLayer ==
    (kind = "trainer" /\ last.ran)
    => /\ Len(net.trainGreedy) = Len(net.layers)
       /\ \A i \in 1..Len(net.trainGreedy) : net.trainGreedy[i].layer = i

\* C11: a train() call with a valid batch index on a finalized trainer
\* (joint step present, greedy steps built for every layer) evaluates the
\* greedy step of layer layerIndex when 0 <= layerIndex < numLayers, and the
\* joint step for every other layerIndex.
C11_TrainRoutesToSelectedStep ==
    (/\ last.op = "train"
     /\ ~last.ran
     /\ ~NeedsFinalize("trainer", net)
     /\ Len(net.trainGreedy) >= Len(net.layers)
     /\ ValidIndex(last.args.index, net))
    => /\ last.err = ""
       /\ IF 0 <= last.args.layer /\ last.args.layer < Len(net.layers)
          THEN last.ev.fn = "trainGreedy" /\ last.ev.layer = last.args.layer + 1
          ELSE last.ev.fn = "trainNetwork"

\* C12: every greedy step, of every layer position, is built on the original
\* network input, none on the output of a layer before it.
C12_GreedyStepsOnOriginalInput ==
    \A i \in 1..Len(net.trainGreedy) : net.trainGreedy[i].inp = 0

\* C13: the reconstruction loss of the joint step is the one calcLoss gives
\* for the first layer's activation: cross-entropy for sigmoid,
\* mean-squared-error otherwise.
C13_JointLossFollowsFirstLayer ==
    (kind = "trainer" /\ "_trainNetwork" \in net.has)
    => net.trainNetwork.loss = calcLoss(net.layers[1].activation)

\* C14: the joint step just built updates the weights of a layer with the
\* momentum rule when the layer's momentum rate is nonzero, and with the
\* plain rule when it is zero.
C14_JointStepUsesMomentum ==
    (/\ kind = "trainer"
     /\ last.op = "finalizeNetwork" /\ last.err = ""
     /\ "_trainNetwork" \in net.has)
    => net.trainNetwork.updates = compileUpdates(net.layers)

\* C15: closeness() on an uncompiled classifier that has layers but None as
\* its target data fails with the ValueError of closeness().
C15_ClosenessWithoutTargetsIsStateError ==
    (/\ kind = "classifier"
     /\ last.op = "closeness"
     /\ "_closeness" \notin net.has
     /\ "_targetData" \in net.has /\ net.targetData.isNone
     /\ Len(net.layers) > 0)
    => last.err = "ValueError"

\* C16: finalizeNetwork on a network with no layer fails with the IndexError
\* before anything is built: the object is as it was, and it holds no
\* closeness function, no joint step and an empty greedy step list.
C16_FinalizeWithoutLayersBuildsNothing ==
    [][(last'.op = "finalizeNetwork" /\ Len(net.layers) = 0)
       => /\ last'.err = "IndexError"
          /\ ~last'.ran
          /\ net' = net
          /\ "_closeness" \notin net'.has
          /\ "_trainNetwork" \notin net'.has
          /\ net'.trainGreedy = <<>>]_vars

\* C16 as stated: after finalizeNetwork has failed on a network with no
\* layer, the object holds no closeness function, no target encodings, no
\* joint step and an empty greedy step list.
C16_NothingExistsAfterRefusedFinalize ==
    (last.op = "finalizeNetwork" /\ Len(net.layers) = 0)
    => /\ last.err = "IndexError"
       /\ "_closeness" \notin net.has
       /\ "_targetEncodings" \notin net.has
       /\ "_trainNetwork" \notin net.has
       /\ net.trainGreedy = <<>>

\* finalizeNetwork has been refused on a network without layers
C16_FinalizeRefused ==
    /\ last.op = "finalizeNetwork"
    /\ last.err = "IndexError"
    /\ Len(net.layers) = 0

StepIndex(step) == CHOOSE i \in 1..Len(Steps) : Steps[i] = step

\* the join() of population step i has returned
Returned(i) == pc.step > i \/ (pc.step = i /\ pc.at = "returned")

\* the thread has ended: in the code only an exception ends a worker
Terminated(w) == workers[w].st = "dead"

\* the calling thread waits in a join() that nothing will ever let return:
\* every worker is dead or waits on an empty queue
Blocked ==
    /\ pc.at = "join"
    /\ ~JoinReady(Steps[pc.step])
    /\ \A w \in 1..Len(workers) :
          \/ Terminated(w)
          \/ workers[w].st = "waiting" /\ queue[workers[w].step] = <<>>

\* C18: once the join() of a population step has returned (and so when the
\* store is flushed and closed) no item of the step is waiting on the queue,
\* no worker of the step holds an item or is writing, and every destination
\* slice of the step has been written.
C18_StagingReturnsAfterAllWork ==
    \A i \in 1..Len(Steps) :
        Returned(i) =>
            /\ queue[Steps[i]] = <<>>
            /\ \A w \in 1..Len(workers) :
                  workers[w].step = Steps[i] => workers[w].st = "waiting"
            /\ \A k \in 1..items[Steps[i]] : store[Steps[i]][k] >= 1

\* hdf5Dataset has returned after several workers staged several batches
C18_ReturnedAfterParallelWork ==
    /\ pc.at = "returned"
    /\ threads >= 2
    /\ items["train"] >= 2
    /\ items["test"] >= 1
    /\ \A k \in 1..items["train"] : store["train"][k] >= 1

\* C19: when the decoder has failed in a worker, staging does not return
\* normally and does not stay blocked for ever: the failure ends the call.
C19_DecoderFailureReachesCaller ==
    (\E w \in 1..Len(workers) : Terminated(w))
    => (pc.at # "returned" /\ ~Blocked)

\* C20: when the join() of a population step has returned, every worker
\* thread the step started has terminated.
C20_WorkersEndWithTheirStep ==
    \A w \in 1..Len(workers) :
        Returned(StepIndex(workers[w].step)) => Terminated(w)


\* C21: a call of hdf5Dataset made after a call with the same parameters
\* has returned the artifact returns the same artifact again, and puts no
\* item on a queue, starts no worker and writes nothing to the store.
C21_SecondCallReturnsCachedArtifact ==
    [][(job'.calls = job.calls + 1 /\ pc.at = "returned")
       => /\ pc'.at = "returned"
          /\ job'.result = job.result
          /\ UNCHANGED <<items, queue, unfinished, workers, store, data>>]_vars

\* the second call has returned the artifact the first call staged
C21_ReturnedFromCache ==
    /\ job.calls = 2
    /\ job.cached
    /\ pc.at = "returned"
    /\ job.result = OutputFile(job)
    /\ items["train"] >= 1
    /\ \A k \in 1..items["train"] : store["train"][k] = 1


\* the imagery splits
Splits == {"train", "test"}

\* the places of the store of split s that hold example k
Places(s, k) ==
    {<<i, p>> \in (1..Len(data[s])) \X (1..job.batch) :
        p <= Len(data[s][i]) /\ data[s][i][p] = k}

\* C24: when staging has returned, the store of a split of c examples
\* staged with batch size b holds floor(c/b) batches of b examples each;
\* example k (counted from 0) of the split's list is held once, at
\* position k mod b of batch k div b, when k < floor(c/b)*b, and is held
\* nowhere otherwise. A split of fewer than b examples has no batch.
C24_StoreHoldsWholeBatchesInOrder ==
    (pc.at = "returned" /\ job.result = OutputFile(job)) =>
        \A s \in Splits :
            LET c == job.count[s]
                b == job.batch
            IN  /\ Len(data[s]) = c \div b
                /\ \A i \in 1..Len(data[s]) : Len(data[s][i]) = b
                /\ \A k \in 0..(c - 1) :
                      Places(s, k + 1) =
                          IF k < (c \div b) * b
                          THEN {<<(k \div b) + 1, (k % b) + 1>>}
                          ELSE {}
                /\ (c < b => Len(data[s]) = 0)

\* staging has returned where the train split leaves a remainder after
\* its whole batches and the test split is smaller than one batch
C24_ReturnedWithRemainderDropped ==
    /\ pc.at = "returned"
    /\ job.batch = 2
    /\ job.count["train"] = 3
    /\ job.count["test"] = 1
    /\ data["train"] = <<(<<1, 2>>)>>
    /\ data["test"] = <<>>


\* the items of step s have been put on its queue
Submitted(s) ==
    \/ pc.step > StepIndex(s)
    \/ pc.step = StepIndex(s) /\ pc.at # "submit"

\* the places of the queue of step s that hold item i
Queued(s, i) == {k \in 1..Len(queue[s]) : queue[s][k] = i}

\* the workers that have taken item i of step s and not marked it done
Holders(s, i) ==
    {w \in 1..Len(workers) : workers[w].step = s /\ workers[w].item = i}

\* C28: every work item of a population step is taken from the queue by
\* one worker only, so every destination slice is written at most once, by
\* the one worker that took its item, and exactly once by the time the
\* item is done; the items of the imagery steps name pairwise different
\* slices and pairwise disjoint ranges of the split's list.
C28_EachItemTakenAndWrittenOnce ==
    \A s \in StepNames :
        Submitted(s) =>
            /\ \A i \in 1..items[s] :
                  /\ Cardinality(Queued(s, i)) + Cardinality(Holders(s, i)) <= 1
                  /\ store[s][i] <= 1
                  /\ store[s][i] = 1 => Queued(s, i) = {}
                  /\ (Queued(s, i) = {} /\ Holders(s, i) = {}) => store[s][i] = 1
            /\ \A i, k \in 1..items[s] :
                  (i # k /\ s \in Splits) =>
                      {ItemFiles(job.count[s], job.batch, i)[n] : n \in 1..job.batch}
                      \cap
                      {ItemFiles(job.count[s], job.batch, k)[n] : n \in 1..job.batch}
                      = {}

\* two workers hold two different items of the train step at once, one of
\* them having written its slice
C28_TwoWorkersOnTwoItems ==
    \E w1, w2 \in 1..Len(workers) :
        /\ workers[w1].step = "train" /\ workers[w2].step = "train"
        /\ workers[w1].item = 1 /\ workers[w2].item = 2
        /\ workers[w1].st = "written"
        /\ workers[w2].st = "writing"
        /\ store["train"] = <<1, 0>>


\* the decoder has failed in some worker
DecodeFailed == \E w \in 1..Len(workers) : Terminated(w)

\* C30: under fair scheduling, a readDataset call whose decodes and writes
\* all succeed returns: whenever the calling thread is in the join() of a
\* population step (the two readDataset calls, and the copyIndices step
\* before them), of any number of items and workers, later the join() has
\* returned (or a decode has failed).
C30_ReadDatasetReturns ==
    \A i \in 1..Len(Steps) :
        (pc = At(i, "join")) ~> (Returned(i) \/ DecodeFailed)

\* both readDataset calls have returned without a failed decode: one that
\* had two items for two workers, one that had no item at all
C30_ReturnedWithAndWithoutItems ==
    /\ pc.at = "returned"
    /\ ~DecodeFailed
    /\ threads = 2
    /\ items["train"] = 2
    /\ items["test"] = 0
    /\ unfinished = [s \in StepNames |-> 0]


\* C22: in every label directory of n files a readAndDivideData call has
\* come to, the number held out is max(minTest, floor(h * n)) for the
\* holdout h the caller passed, whatever directories came before, and the
\* probability of the Bernoulli trials is that number over n.
C22_HoldoutFromCallersFraction ==
    walk.at \in {"walking", "done", "raised"} =>
        \A i \in 1..Len(walk.draws) :
            /\ walk.draws[i].numTest =
                  NumTest(walk.minTest, walk.arg, walk.draws[i].n)
            /\ walk.draws[i].p = <<walk.draws[i].numTest, walk.draws[i].n>>

\* C23: when hdf5Dataset has its lists, the directories the test examples
\* were read from are those the train examples were read from where train/
\* and test/ are used, and are among them otherwise.
C23_TestLabelsWithinTrainLabels ==
    walk.at = "done" =>
        LET trainLabels == {e.dir : e \in walk.out.train}
            testLabels == {e.dir : e \in walk.out.test}
        IN  IF walk.mode = "presplit" THEN testLabels = trainLabels
            ELSE testLabels \subseteq trainLabels


\* C25: checkAvailableMemory returns, whatever the memory; it returns TRUE
\* only where shared was TRUE; it returns FALSE where shared was TRUE on a
\* gpu device whose available memory is not greater than the dataset; and
\* what it returns is the same for every amount of available host memory.
C25_MemoryCheckDecision ==
    mem.at = "returned" =>
        /\ mem.out \in BOOLEAN
        /\ mem.out => mem.shared
        /\ (mem.shared /\ mem.device = "gpu"
                /\ ~(mem.gpu > mem.dataMemoryConsumption)) => ~mem.out
        /\ \A host \in 0..MaxGiB :
              checkAvailableMemory([mem EXCEPT !.at = "idle", !.host = host,
                                              !.msgs = <<>>, !.out = FALSE]).out
              = mem.out

\* the check has refused device residency on a gpu whose free memory just
\* equals the dataset, on a host the dataset does not fit in
C25_DowngradedOnFullDevice ==
    /\ mem.at = "returned"
    /\ mem.shared /\ mem.device = "gpu"
    /\ mem.gpu = mem.dataMemoryConsumption
    /\ mem.host - oneGigMem < mem.dataMemoryConsumption
    /\ ~mem.out
    /\ mem.msgs = <<"info", "warn", "warn">>


\* the last call was a writePickleZip that got past the check of the name
Wrote == disk.op = "write" /\ EndsWith(disk.name, "pkl.gz")

\* the first attempt of the last call was with protocol 2 on the name given
FirstAttemptPrimary ==
    /\ Len(disk.attempts) \in 1..2
    /\ disk.attempts[1].protocol = 2
    /\ disk.attempts[1].name = disk.name
    /\ disk.attempts[1].ok => (Len(disk.attempts) = 1 /\ ~disk.raised)

\* the last call made a second attempt, with the highest protocol on the
\* alternate name, and raised exactly if that attempt failed
RetriedOnce ==
    /\ Len(disk.attempts) = 2
    /\ disk.attempts[2].protocol = HighestProtocol(pyMajor)
    /\ disk.attempts[2].name = Replace(disk.name)
    /\ disk.raised <=> ~disk.attempts[2].ok

\* C26 as stated: a writePickleZip call makes one or two attempts, the
\* first with protocol 2 on the name given; when the first fails, one more
\* follows with the highest protocol on the alternate name, whose failure
\* is raised.
C26_FirstFailureAlwaysRetried ==
    /\ disk.op = "write" => Len(disk.attempts) <= 2
    /\ Wrote => /\ FirstAttemptPrimary
                /\ ~disk.attempts[1].ok => RetriedOnce

\* C26: a writePickleZip call makes at most two attempts, the first with
\* protocol 2 on the name given. When the first fails under Python 3, one
\* more follows with the highest protocol on the alternate name, and its
\* failure is raised; when the first fails under Python 2 there is no
\* second attempt and the failure of the first is raised.
C26_FirstFailureRetriedOnPython3 ==
    /\ disk.op = "write" => Len(disk.attempts) <= 2
    /\ Wrote => /\ FirstAttemptPrimary
                /\ (~disk.attempts[1].ok /\ pyMajor >= 3) => RetriedOnce
                /\ (~disk.attempts[1].ok /\ pyMajor < 3) =>
                       (Len(disk.attempts) = 1 /\ disk.raised)

\* a write whose first attempt failed on a large object and whose retry
\* succeeded
C26_RetrySucceeded ==
    /\ Wrote
    /\ disk.data = "large"
    /\ Len(disk.attempts) = 2
    /\ ~disk.attempts[1].ok
    /\ disk.attempts[2].ok
    /\ ~disk.raised

\* C27: when writePickleZip(f, data) has returned without an exception,
\* readPickleZip(f) returns data.
C27_WrittenPickleReadsBack ==
    (Wrote /\ ~disk.raised) =>
        /\ ~readPickleZip(disk.files, disk.name, pyMajor).raised
        /\ readPickleZip(disk.files, disk.name, pyMajor).value = disk.data


\* C29: after a training step on a weight of a layer with momentum rate
\* m > 0, the velocity is the one before times m less the learning rate
\* times the gradient, and the weight is the one before plus that new
\* velocity; so the first step moves the weight by -learningRate*gradient.
C29_WeightMovesByNewVelocity ==
    (sgd.at = "compiled" /\ sgd.momentum > 0 /\ sgd.steps >= 1) =>
        /\ sgd.previousWeightUpdate =
              sgd.velocityBefore * sgd.momentum - sgd.learningRate * sgd.g
        /\ sgd.w = sgd.before + sgd.previousWeightUpdate
        /\ sgd.steps = 1 => sgd.w - sgd.before = 0 - sgd.learningRate * sgd.g


\* C31: a classifier that holds a compiled closeness function holds its
\* target encodings, in every state its operations lead to; and no call of
\* closeness() ends in the ValueError raised for missing target encodings.
C31_ClosenessFunctionHasEncodings ==
    kind = "classifier" =>
        /\ "_closeness" \in net.has => "_targetEncodings" \in net.has
        /\ ~(last.op = "closeness" /\ last.err = "ValueError")

\* closeness() has compiled its function and succeeded on a classifier
\* that has written a snapshot
C31_ClosenessAfterLoad ==
    /\ kind = "classifier"
    /\ last.op = "closeness"
    /\ last.err = ""
    /\ last.ran
    /\ saved # NoSnapshot
    /\ "_closeness" \in net.has
    /\ "_targetEncodings" \in net.has


\* C32: a train() call with a valid batch index on a trainer that has at
\* least one layer and no target data (its constructor attaches none) runs
\* its finalization to the end and evaluates a training step.
C32_TrainerTrainsWithoutTargets ==
    (/\ kind = "trainer"
     /\ last.op = "train"
     /\ last.ran
     /\ Len(net.layers) >= 1
     /\ "_targetData" \notin net.has
     /\ ValidIndex(last.args.index, net))
    => /\ last.err = ""
       /\ "_trainNetwork" \in net.has
       /\ last.ev.fn \in {"trainGreedy", "trainNetwork"}


\* C33: when a staging run cannot complete (the decoder has failed in a
\* worker and the calling thread is blocked in a join() for ever), no file
\* is at the output path for a later call to find and return.
C33_NoArtifactFromFailedStaging ==
    (DecodeFailed /\ Blocked) => ~CacheHit(job)


\* C34: when hdf5Dataset has its lists, the index every train and test
\* example carries (the one copyIndices stores for it) is the position, in
\* the labels that are persisted, of the directory the example was read
\* from.
C34_IndexNamesExampleDirectory ==
    walk.at = "done" =>
        \A e \in walk.out.train \cup walk.out.test :
            /\ e.indx + 1 \in 1..Len(walk.out.labels)
            /\ walk.out.labels[e.indx + 1] = e.dir

\* C35: the probability handed to the Bernoulli trials of a directory lies
\* in [0, 1], in every label directory holding a file that a
\* readAndDivideData call has come to.
C35_BernoulliProbabilityInUnitInterval ==
    walk.at \in {"walking", "done", "raised"} =>
        \A i \in 1..Len(walk.draws) :
            /\ 0 <= walk.draws[i].p[1]
            /\ walk.draws[i].p[1] <= walk.draws[i].p[2]

=============================================================================
